---- MODULE Spec2Model ----
(***************************************************************************)
(* Model of aapt2's JavaClassGenerator (tools/aapt2/JavaClassGenerator.cpp) *)
(* One behaviour is one call of JavaClassGenerator::generate on a resource *)
(* table that was fixed at construction.  Names are sequences of UTF-16    *)
(* code units, written here as sequences of one-character strings.  The    *)
(* output stream is the sequence of the declarations written to it; the    *)
(* indentation and the line breaks between declarations are not modelled.  *)
(***************************************************************************)
EXTENDS Integers, Sequences, FiniteSets, TLC

VARIABLES
    mTable,     \* the ResourceTable: [package, packageId, types]
    mOptions,   \* JavaClassGenerator::Options: [useFinal]
    mError,     \* the generator's error: NoError or the offending resource name
    package,    \* generate's argument: the target package
    out,        \* generate's argument: what has been written to the stream
    pc,         \* position of generate: "start", "type", "entry", "done"
    typeIdx,    \* position of the loop over *mTable (1-based)
    entryIdx,   \* position of the loop over type.entries (1-based)
    result,     \* return value of generate: "none", "true", "false"
    emitted     \* history: <<typeIdx, entryIdx>> of every entry written, in order

vars == <<mTable, mOptions, mError, package, out, pc, typeIdx, entryIdx, result, emitted>>

----------------------------------------------------------------------------
(* Bounds of the model *)

\* The most types, entries and styleable attributes, counted together, a
\* table holds.
MaxSize == 4

----------------------------------------------------------------------------
(* Strings *)

Chars(s) == [i \in 1..Len(s) |-> SubSeq(s, i, i)]

\* The code units used by the model, in ascending numeric order.
CharOrder == Chars("$-.ABCDEFGHIJKLMNOPQRSTUVWXYZ_abcdefghijklmnopqrstuvwxyz")

Ord(c) == CHOOSE i \in 1..Len(CharOrder) : CharOrder[i] = c

RECURSIVE StrLess(_, _)
StrLess(a, b) ==
    IF b = <<>> THEN FALSE
    ELSE IF a = <<>> THEN TRUE
    ELSE IF Head(a) # Head(b) THEN Ord(Head(a)) < Ord(Head(b))
    ELSE StrLess(Tail(a), Tail(b))

----------------------------------------------------------------------------
(* Collaborators declared in headers of the repository *)

\* ResourceId(p, t, e): the packed 32-bit id, (p << 24) | (t << 16) | e, for
\* an 8-bit package id, an 8-bit type id and a 16-bit entry id.
Pack(p, t, e) == (p % 256) * 16777216 + (t % 256) * 65536 + (e % 65536)

\* operator< on ResourceNameRef: (package, type, entry) compared in order.
NameRefLess(a, b) ==
    \/ StrLess(a.package, b.package)
    \/ a.package = b.package /\ StrLess(Chars(a.type), Chars(b.type))
    \/ a.package = b.package /\ a.type = b.type /\ StrLess(a.entry, b.entry)

\* NameMangler::mangleEntry
Mangle(pkg, name) == pkg \o <<"$">> \o name

\* NameMangler::unmangle: splits a name at its first '$'; a name without
\* one is not mangled and is left as it is.
Unmangle(name) ==
    IF \E i \in 1..Len(name) : name[i] = "$"
    THEN LET pivot == CHOOSE i \in 1..Len(name) :
                          name[i] = "$" /\ \A j \in 1..(i - 1) : name[j] # "$"
         IN [mangled |-> TRUE,
             package |-> SubSeq(name, 1, pivot - 1),
             name |-> SubSeq(name, pivot + 1, Len(name))]
    ELSE [mangled |-> FALSE, package |-> <<>>, name |-> name]

----------------------------------------------------------------------------
(* Static data and helpers of JavaClassGenerator.cpp *)

kAttribsPerLine == 4

sJavaIdentifiers == { Chars(w) : w \in {
    "abstract", "assert", "boolean", "break", "byte",
    "case", "catch", "char", "class", "const", "continue",
    "default", "do", "double", "else", "enum", "extends",
    "final", "finally", "float", "for", "goto", "if",
    "implements", "import", "instanceof", "int", "interface",
    "long", "native", "new", "package", "private", "protected",
    "public", "return", "short", "static", "strictfp", "super",
    "switch", "synchronized", "this", "throw", "throws",
    "transient", "try", "void", "volatile", "while", "true",
    "false", "null" } }

\* Variant: a set of identifiers that lacks "if".
isValidSymbolWithoutIf(symbol) == symbol \notin (sJavaIdentifiers \ { Chars("if") })

isValidSymbol(symbol) == symbol \notin sJavaIdentifiers

\* Variant: only '.' is replaced.
transformDotsOnly(symbol) ==
    [i \in 1..Len(symbol) |-> IF symbol[i] = "." THEN "_" ELSE symbol[i]]

transform(symbol) ==
    [i \in 1..Len(symbol) |->
        IF symbol[i] = "." \/ symbol[i] = "-" THEN "_" ELSE symbol[i]]

----------------------------------------------------------------------------
(* The tables the model is run on.  Every id in them is valid, which is    *)
(* what the assertions of generateType and visit require.                  *)

NoError == [package |-> <<>>, type |-> "", entry |-> <<>>]

Packages == { Chars("app"), Chars("my.lib") }

PackageIds == { 127 }

\* ResourceType tags with the type ids the table assigns to them.
TypePool == { [type |-> "id", typeId |-> 3],
              [type |-> "styleable", typeId |-> 1],
              [type |-> "string", typeId |-> 2] }

\* Entry names as stored in the table, each with the entry id it is given.
EntryPool ==
    { [entryId |-> 0, name |-> Chars("foo")],
      [entryId |-> 5, name |-> Chars("do")],
      [entryId |-> 2, name |-> Chars("Do")],
      [entryId |-> 4, name |-> Mangle(Chars("my.lib"), Chars("if"))],
      [entryId |-> 3, name |-> Mangle(Chars("app"), Chars("x-y.z"))] }

StyleableEntryPool ==
    { [entryId |-> 1, name |-> Chars("My.Theme")],
      [entryId |-> 0, name |-> Mangle(Chars("my.lib"), Chars("T-v"))] }

\* Attribute entries of a Styleable: (id, name).
AttrPool ==
    { [id |-> Pack(127, 1, 30), name |-> [package |-> Chars("app"), type |-> "attr", entry |-> Chars("text.size")]],
      [id |-> Pack(127, 1, 10), name |-> [package |-> Chars("my.lib"), type |-> "attr", entry |-> Chars("line-height")]],
      [id |-> Pack(1, 1, 20), name |-> [package |-> Chars("app"), type |-> "attr", entry |-> Chars("tint")]] }

\* Sequences of at most n elements of S.
RECURSIVE SeqsUpTo(_, _)
SeqsUpTo(S, n) ==
    IF n <= 0 THEN { <<>> }
    ELSE { <<>> } \cup { <<x>> \o s : x \in S, s \in SeqsUpTo(S, n - 1) }

\* Sequences of at most n distinct elements of S.
RECURSIVE DistinctSeqsUpTo(_, _)
DistinctSeqsUpTo(S, n) ==
    IF n <= 0 THEN { <<>> }
    ELSE { <<>> } \cup
         UNION { { <<x>> \o s : s \in DistinctSeqsUpTo(S \ {x}, n - 1) } : x \in S }

Styleables == SeqsUpTo(AttrPool, MaxSize - 2)

\* The entries a type of the given tag can hold: a ResourceEntry is
\* [entryId, name, styleable], styleable being the attribute entries of its
\* first value (consulted for styleable types only).
EntriesOf(tag) ==
    IF tag = "styleable"
    THEN { [entryId |-> e.entryId, name |-> e.name, styleable |-> s] :
               e \in StyleableEntryPool, s \in Styleables }
    ELSE { [entryId |-> e.entryId, name |-> e.name, styleable |-> <<>>] :
               e \in EntryPool }

\* What an entry counts for in the size of a table.
EntrySize(entry) == 1 + Len(entry.styleable)

\* Sequences of entries with distinct entry ids, of a size within the budget.
RECURSIVE EntrySeqs(_, _)
EntrySeqs(E, budget) ==
    { <<>> } \cup
    UNION { { <<x>> \o s :
                s \in EntrySeqs({ y \in E : y.entryId # x.entryId },
                                budget - EntrySize(x)) } :
            x \in { y \in E : EntrySize(y) <= budget } }

RECURSIVE SizeOf(_)
SizeOf(es) == IF es = <<>> THEN 0 ELSE EntrySize(Head(es)) + SizeOf(Tail(es))

\* The tables over a sequence of tags, of a size within the budget.
RECURSIVE TypeSeqs(_, _)
TypeSeqs(tags, budget) ==
    IF tags = <<>> THEN { <<>> }
    ELSE UNION { { <<[type |-> Head(tags).type, typeId |-> Head(tags).typeId,
                      entries |-> es]>> \o rest :
                     rest \in TypeSeqs(Tail(tags), budget - SizeOf(es)) } :
                 es \in EntrySeqs(EntriesOf(Head(tags).type), budget) }

Tables ==
    { [package |-> p, packageId |-> pid, types |-> ts] :
          p \in Packages, pid \in PackageIds,
          ts \in UNION { TypeSeqs(tags, MaxSize - Len(tags)) :
                            tags \in DistinctSeqsUpTo(TypePool, MaxSize) } }

----------------------------------------------------------------------------
(* JavaClassGenerator *)

\* JavaClassGenerator::JavaClassGenerator, followed by the call of generate.
Init ==
    /\ mTable \in Tables
    /\ mOptions \in [useFinal : BOOLEAN]
    /\ package \in Packages
    /\ mError = NoError
    /\ out = <<>>
    /\ pc = "start"
    /\ typeIdx = 0
    /\ entryIdx = 0
    /\ result = "none"
    /\ emitted = <<>>

\* operator< of std::pair<ResourceId, ResourceNameRef>
PairLess(a, b) == a.id < b.id \/ (a.id = b.id /\ NameRefLess(a.name, b.name))

RECURSIVE Insert(_, _)
Insert(x, s) ==
    IF s = <<>> THEN <<x>>
    ELSE IF PairLess(x, Head(s)) THEN <<x>> \o s
    ELSE <<Head(s)>> \o Insert(x, Tail(s))

\* std::sort(sortedAttributes.begin(), sortedAttributes.end())
RECURSIVE Sort(_)
Sort(s) == IF s = <<>> THEN <<>> ELSE Insert(Head(s), Sort(Tail(s)))

\* Variant: the pairs are left in the order of styleable.entries.
sortedAttributesInStorageOrder(styleable) ==
    [i \in 1..Len(styleable) |-> [id |-> styleable[i].id, name |-> styleable[i].name]]

\* The (id, name) pairs collected from styleable.entries, sorted.
sortedAttributes(styleable) ==
    Sort([i \in 1..Len(styleable) |-> [id |-> styleable[i].id, name |-> styleable[i].name]])

\* First half of visit: the array that holds the id of each attribute.
\* lineStarts are the positions before which a line break is written.
ArrayDecl(styleable, entryName) ==
    LET sorted == sortedAttributes(styleable)
        attrCount == Len(sorted)
    IN [kind |-> "array",
        final |-> TRUE,
        name |-> transform(entryName),
        ids |-> [i \in 1..attrCount |-> sorted[i].id],
        lineStarts |-> { i \in 0..(attrCount - 1) : i % kAttribsPerLine = 0 }]

\* Variant: the attribute's package is compared with the package being written.
IndexNameComparesTarget(itemName, entryName) ==
    transform(entryName)
      \o (IF itemName.package # package
          THEN <<"_">> \o transform(itemName.package) ELSE <<>>)
      \o <<"_">> \o transform(itemName.entry)

\* Name of the index constant of one attribute.
IndexName(itemName, entryName) ==
    transform(entryName)
      \o (IF itemName.package # mTable.package
          THEN <<"_">> \o transform(itemName.package) ELSE <<>>)
      \o <<"_">> \o transform(itemName.entry)

\* Variant: the indices are declared final like the array.
IndexDeclsAlwaysFinal(styleable, entryName) ==
    LET sorted == sortedAttributes(styleable)
        attrCount == Len(sorted)
    IN [k \in 1..attrCount |->
           [kind |-> "index",
            final |-> TRUE,
            name |-> IndexName(sorted[k].name, entryName),
            value |-> k - 1]]

\* Second half of visit: the indices into the array.
IndexDecls(styleable, entryName) ==
    LET sorted == sortedAttributes(styleable)
        attrCount == Len(sorted)
    IN [k \in 1..attrCount |->
           [kind |-> "index",
            final |-> mOptions.useFinal,
            name |-> IndexName(sorted[k].name, entryName),
            value |-> k - 1]]

\* JavaClassGenerator::visit(const Styleable&, ValueVisitorArgs&)
visit(styleable, entryName) ==
    <<ArrayDecl(styleable, entryName)>> \o IndexDecls(styleable, entryName)

CurType == mTable.types[typeIdx]
CurEntry == CurType.entries[entryIdx]

\* Variant: entries that are not mangled are written for every package.
SkipEntryKeepsUnmangled(pkg, entry) ==
    LET u == Unmangle(entry.name)
    IN IF u.mangled THEN pkg # u.package ELSE FALSE

\* generateType: the decision to skip an entry for the package being written.
SkipEntry(pkg, entry) ==
    LET u == Unmangle(entry.name)
    IN IF u.mangled THEN pkg # u.package ELSE pkg # mTable.package

\* Variant: the name is validated before the package is looked at.
EntryOutcomeValidatesFirst(pkg, entry) ==
    IF ~isValidSymbol(Unmangle(entry.name).name) THEN "invalid"
    ELSE IF SkipEntry(pkg, entry) THEN "skip"
    ELSE "emit"

\* generateType: what becomes of an entry, in the order the code decides it.
EntryOutcome(pkg, entry) ==
    IF SkipEntry(pkg, entry) THEN "skip"
    ELSE IF ~isValidSymbol(Unmangle(entry.name).name) THEN "invalid"
    ELSE "emit"

\* Variant: the type id and the entry id change places.
ConstDeclSwapsIds(type, entry) ==
    [kind |-> "const",
     final |-> mOptions.useFinal,
     name |-> transform(Unmangle(entry.name).name),
     value |-> Pack(mTable.packageId, entry.entryId, type.typeId)]

\* generateType: the declaration of an entry that is not a styleable.
ConstDecl(type, entry) ==
    [kind |-> "const",
     final |-> mOptions.useFinal,
     name |-> transform(Unmangle(entry.name).name),
     value |-> Pack(mTable.packageId, type.typeId, entry.entryId)]

\* generate: the header, the package line and the opening of class R.
GenerateStart ==
    /\ pc = "start"
    /\ out' = out \o <<[kind |-> "header", package |-> package], [kind |-> "openR"]>>
    /\ typeIdx' = 1
    /\ pc' = "type"
    /\ UNCHANGED <<mTable, mOptions, mError, package, entryIdx, result, emitted>>

\* Variant: a type without entries gets no class.
OpenTypeUnlessEmpty ==
    /\ pc = "type"
    /\ typeIdx <= Len(mTable.types)
    /\ out' = IF CurType.entries = <<>> THEN out
              ELSE Append(out, [kind |-> "openType", type |-> CurType.type])
    /\ entryIdx' = 1
    /\ pc' = "entry"
    /\ UNCHANGED <<mTable, mOptions, mError, package, typeIdx, result, emitted>>

\* generate: the opening of the class of the next type.
OpenType ==
    /\ pc = "type"
    /\ typeIdx <= Len(mTable.types)
    /\ out' = Append(out, [kind |-> "openType", type |-> CurType.type])
    /\ entryIdx' = 1
    /\ pc' = "entry"
    /\ UNCHANGED <<mTable, mOptions, mError, package, typeIdx, result, emitted>>

\* generateType: an entry that does not belong to the package being written.
GenerateTypeSkip ==
    /\ pc = "entry"
    /\ entryIdx <= Len(CurType.entries)
    /\ EntryOutcome(package, CurEntry) = "skip"
    /\ entryIdx' = entryIdx + 1
    /\ UNCHANGED <<mTable, mOptions, mError, package, out, pc, typeIdx, result, emitted>>

\* Variant: the class of the type is closed before generate returns false.
GenerateTypeInvalidClosesType ==
    /\ pc = "entry"
    /\ entryIdx <= Len(CurType.entries)
    /\ EntryOutcome(package, CurEntry) = "invalid"
    /\ mError' = [package |-> package, type |-> CurType.type,
                  entry |-> Unmangle(CurEntry.name).name]
    /\ out' = Append(out, [kind |-> "closeType"])
    /\ result' = "false"
    /\ pc' = "done"
    /\ UNCHANGED <<mTable, mOptions, package, typeIdx, entryIdx, emitted>>

\* generateType: an entry whose name is a Java identifier; generateType
\* returns false and so does generate.
GenerateTypeInvalid ==
    /\ pc = "entry"
    /\ entryIdx <= Len(CurType.entries)
    /\ EntryOutcome(package, CurEntry) = "invalid"
    /\ mError' = [package |-> package, type |-> CurType.type,
                  entry |-> Unmangle(CurEntry.name).name]
    /\ result' = "false"
    /\ pc' = "done"
    /\ UNCHANGED <<mTable, mOptions, package, out, typeIdx, entryIdx, emitted>>

\* generateType: an entry of the styleable type.
GenerateTypeStyleable ==
    /\ pc = "entry"
    /\ entryIdx <= Len(CurType.entries)
    /\ EntryOutcome(package, CurEntry) = "emit"
    /\ CurType.type = "styleable"
    /\ out' = out \o visit(CurEntry.styleable, Unmangle(CurEntry.name).name)
    /\ emitted' = Append(emitted, <<typeIdx, entryIdx>>)
    /\ entryIdx' = entryIdx + 1
    /\ UNCHANGED <<mTable, mOptions, mError, package, pc, typeIdx, result>>

\* generateType: an entry of any other type.
GenerateTypeConst ==
    /\ pc = "entry"
    /\ entryIdx <= Len(CurType.entries)
    /\ EntryOutcome(package, CurEntry) = "emit"
    /\ CurType.type # "styleable"
    /\ out' = Append(out, ConstDecl(CurType, CurEntry))
    /\ emitted' = Append(emitted, <<typeIdx, entryIdx>>)
    /\ entryIdx' = entryIdx + 1
    /\ UNCHANGED <<mTable, mOptions, mError, package, pc, typeIdx, result>>

\* generate: generateType returned true; the class of the type is closed.
CloseType ==
    /\ pc = "entry"
    /\ entryIdx > Len(CurType.entries)
    /\ out' = Append(out, [kind |-> "closeType"])
    /\ typeIdx' = typeIdx + 1
    /\ pc' = "type"
    /\ UNCHANGED <<mTable, mOptions, mError, package, entryIdx, result, emitted>>

\* generate: all types are written; class R is closed and generate returns true.
CloseR ==
    /\ pc = "type"
    /\ typeIdx > Len(mTable.types)
    /\ out' = Append(out, [kind |-> "closeR"])
    /\ result' = "true"
    /\ pc' = "done"
    /\ UNCHANGED <<mTable, mOptions, mError, package, typeIdx, entryIdx, emitted>>

Next ==
    \/ GenerateStart
    \/ OpenType
    \/ GenerateTypeSkip
    \/ GenerateTypeInvalid
    \/ GenerateTypeStyleable
    \/ GenerateTypeConst
    \/ CloseType
    \/ CloseR

Spec == Init /\ [][Next]_vars

TypeOK ==
    /\ pc \in {"start", "type", "entry", "done"}
    /\ result \in {"none", "true", "false"}
    /\ (result = "none") = (pc # "done")

----------------------------------------------------------------------------
(* Vocabulary of the properties *)

\* The positions <<type, entry>> of the table, and the table's iteration order.
Positions ==
    { te \in (1..Len(mTable.types)) \X (1..MaxSize) :
          te[2] <= Len(mTable.types[te[1]].entries) }

TypeAt(te) == mTable.types[te[1]]
EntryAt(te) == mTable.types[te[1]].entries[te[2]]
Before(a, b) == a[1] < b[1] \/ (a[1] = b[1] /\ a[2] < b[2])

IsMangled(te) == Unmangle(EntryAt(te).name).mangled
OriginPackage(te) == Unmangle(EntryAt(te).name).package
PlainName(te) == Unmangle(EntryAt(te).name).name

\* The entries that belong to the output of package P.
BelongsTo(P, te) ==
    \/ IsMangled(te) /\ OriginPackage(te) = P
    \/ ~IsMangled(te) /\ P = mTable.package

IsReserved(te) == PlainName(te) \in sJavaIdentifiers

\* The entries that are both wanted for the target package and reserved.
Offending == { te \in Positions : BelongsTo(package, te) /\ IsReserved(te) }
FirstOffending == CHOOSE te \in Offending : \A o \in Offending : o = te \/ Before(te, o)

EmittedSet == { emitted[k] : k \in DOMAIN emitted }

IsDecl(ev) == ev.kind \in {"const", "array", "index"}
IsSymbol(ev) == ev.kind \in {"const", "array"}
Count(s, Test(_)) == Cardinality({ i \in DOMAIN s : Test(s[i]) })
IsOpenType(ev) == ev.kind = "openType"
IsCloseType(ev) == ev.kind = "closeType"
IsCloseR(ev) == ev.kind = "closeR"

\* The number of declarations an emitted entry accounts for, and the place
\* in the output where those of the k-th emitted entry start.
DeclSize(te) ==
    IF TypeAt(te).type = "styleable" THEN 1 + Len(EntryAt(te).styleable) ELSE 1

RECURSIVE SizeUpTo(_)
SizeUpTo(k) == IF k = 0 THEN 0 ELSE SizeUpTo(k - 1) + DeclSize(emitted[k])

DeclStart(k) == 2 + (2 * emitted[k][1] - 1) + SizeUpTo(k - 1) + 1

----------------------------------------------------------------------------
(* C1: a successful generate(P) emits a symbol for exactly the entries that  *)
(* unmangle with origin package P, plus the entries that are not mangled    *)
(* when P is the table's own package; and at no time has it emitted an      *)
(* entry outside that set.                                                  *)
C1_EmitsExactlyPackageEntries ==
    /\ \A te \in EmittedSet : te \in Positions /\ BelongsTo(package, te)
    /\ \A te \in EmittedSet :
           /\ ~IsMangled(te) => package = mTable.package
           /\ IsMangled(te) => OriginPackage(te) = package
    /\ result = "true" =>
           /\ EmittedSet = { te \in Positions : BelongsTo(package, te) }
           /\ Len(emitted) = Cardinality(EmittedSet)
           /\ Count(out, IsSymbol) = Len(emitted)

\* A successful run for the table's own package that emitted an entry and
\* skipped a mangled entry of another package.
C1_Witness ==
    /\ result = "true"
    /\ package = mTable.package
    /\ emitted # <<>>
    /\ \E te \in Positions : IsMangled(te) /\ OriginPackage(te) # package

----------------------------------------------------------------------------
(* C2 as stated: any entry of the table whose unmangled name is a reserved  *)
(* symbol makes generate fail.                                              *)
C2_AnyReservedEntryFails ==
    (pc = "done" /\ \E te \in Positions : IsReserved(te)) => result = "false"

(* C2: the first entry in iteration order that belongs to the target        *)
(* package and whose unmangled name is a reserved symbol makes generate fail *)
(* with an error naming (target package, type, plain name) of that entry;   *)
(* nothing is written after it: every emitted entry precedes it and no      *)
(* later type's container is opened.                                        *)
C2_FirstWantedReservedEntryFails ==
    (pc = "done" /\ Offending # {}) =>
        /\ result = "false"
        /\ mError = [package |-> package,
                     type |-> TypeAt(FirstOffending).type,
                     entry |-> PlainName(FirstOffending)]
        /\ \A te \in EmittedSet : Before(te, FirstOffending)
        /\ Count(out, IsOpenType) = FirstOffending[1]
        /\ Count(out, IsSymbol) = Len(emitted)
        /\ Count(out, IsCloseType) = FirstOffending[1] - 1
        /\ Count(out, IsCloseR) = 0

\* A failed run in which an entry follows the offending one in the same type.
C2_Witness ==
    /\ result = "false"
    /\ \E te \in Positions : Before(FirstOffending, te) /\ te[1] = FirstOffending[1]

----------------------------------------------------------------------------
(* C10: generate fails exactly when some entry that belongs to the target   *)
(* package has a plain name equal to a reserved word; a reserved name that  *)
(* is skipped never fails it, and the error names the first such entry.     *)
C10_FailsIffWantedReserved ==
    pc = "done" =>
        /\ (result = "false") <=>
               (\E te \in Positions : BelongsTo(package, te) /\ IsReserved(te))
        /\ result = "true" => mError = NoError
        /\ result = "false" =>
               /\ <<typeIdx, entryIdx>> \in Offending
               /\ \A te \in Positions :
                      Before(te, <<typeIdx, entryIdx>>) =>
                          ~(BelongsTo(package, te) /\ IsReserved(te))
               /\ mError.entry = PlainName(<<typeIdx, entryIdx>>)
               /\ mError.entry \in sJavaIdentifiers
               /\ mError.type = CurType.type

\* A failed run in which a skipped entry with a reserved name precedes the
\* entry the error names.
C10_Witness ==
    /\ result = "false"
    /\ \E te \in Positions :
           /\ Before(te, <<typeIdx, entryIdx>>)
           /\ IsReserved(te)
           /\ ~BelongsTo(package, te)

----------------------------------------------------------------------------
(* The declarations of the k-th emitted entry, and their place in a class *)

DeclEnd(k) == DeclStart(k) + DeclSize(emitted[k]) - 1

\* The declarations of the k-th emitted entry are in the output, inside the
\* class of the type of that entry.
Placed(k) ==
    /\ DeclEnd(k) <= Len(out)
    /\ IsSymbol(out[DeclStart(k)])
    /\ \A i \in DeclStart(k)..DeclEnd(k) : IsDecl(out[i])
    /\ Count(SubSeq(out, 1, DeclStart(k)), IsOpenType) = emitted[k][1]
    /\ Count(SubSeq(out, 1, DeclStart(k)), IsCloseType) = emitted[k][1] - 1

IsStyleableAt(k) == TypeAt(emitted[k]).type = "styleable"

\* What is written around the declarations.
Skeleton == SelectSeq(out, LAMBDA ev : ~IsDecl(ev))

Preamble == << [kind |-> "header", package |-> package], [kind |-> "openR"] >>

OpenOf(t) == [kind |-> "openType", type |-> mTable.types[t].type]

RECURSIVE Containers(_)
Containers(n) ==
    IF n = 0 THEN <<>>
    ELSE Containers(n - 1) \o << OpenOf(n), [kind |-> "closeType"] >>

Orderings(n) == { f \in [1..n -> 1..n] : \A i, j \in 1..n : f[i] = f[j] => i = j }

Occurrences(s, v) == Cardinality({ i \in DOMAIN s : s[i] = v })

EndsWith(s, suffix) ==
    /\ Len(suffix) <= Len(s)
    /\ SubSeq(s, Len(s) - Len(suffix) + 1, Len(s)) = suffix

----------------------------------------------------------------------------
(* C3: for every styleable emitted, the array lists the ids of all its      *)
(* attributes (same multiset, same count) in ascending order; one index     *)
(* constant follows per attribute, the one of the attribute at sorted       *)
(* position i having value i, so the values are 0..n-1 in output order; and *)
(* every storage order of the same attributes gives the same output.        *)
C3_StyleableSortedAndIndexed ==
    \A k \in DOMAIN emitted : IsStyleableAt(k) =>
        LET attrs == EntryAt(emitted[k]).styleable
            n == Len(attrs)
            s == DeclStart(k)
            attrIds == [i \in 1..n |-> attrs[i].id]
        IN /\ s + n <= Len(out)
           /\ out[s].kind = "array"
           /\ Len(out[s].ids) = n
           /\ \A i \in 1..n :
                  Occurrences(out[s].ids, attrIds[i]) = Occurrences(attrIds, attrIds[i])
           /\ \A i, j \in 1..n : i < j => out[s].ids[i] <= out[s].ids[j]
           /\ \A i \in 1..n : out[s + i].kind = "index" /\ out[s + i].value = i - 1
           /\ \E f \in Orderings(n) :
                  \A i \in 1..n :
                      /\ attrs[f[i]].id = out[s].ids[i]
                      /\ EndsWith(out[s + i].name, <<"_">> \o transform(attrs[f[i]].name.entry))
           /\ \A f \in Orderings(n) :
                  visit([i \in 1..n |-> attrs[f[i]]], PlainName(emitted[k]))
                      = SubSeq(out, s, s + n)

\* A styleable was emitted whose attributes are not stored in ascending order.
C3_Witness ==
    \E k \in DOMAIN emitted :
        /\ IsStyleableAt(k)
        /\ \E i, j \in DOMAIN EntryAt(emitted[k]).styleable :
               i < j /\ EntryAt(emitted[k]).styleable[i].id > EntryAt(emitted[k]).styleable[j].id

----------------------------------------------------------------------------
----------------------------------------------------------------------------
(* C5: when generate fails in type number k the output is left truncated:   *)
(* the header, the opening of R, an opened and closed class for each type   *)
(* before k, the opened class of type k with the entries emitted before the *)
(* failing one, and nothing else.                                           *)
C5_FailureLeavesTruncatedOutput ==
    result = "false" =>
        /\ Offending # {}
        /\ LET k == FirstOffending[1]
           IN /\ Skeleton = Preamble \o Containers(k - 1) \o << OpenOf(k) >>
              /\ Len(out) = Len(Skeleton) + SizeUpTo(Len(emitted))
              /\ EmittedSet = { te \in Positions :
                                   Before(te, FirstOffending) /\ BelongsTo(package, te) }
              /\ Len(emitted) = Cardinality(EmittedSet)
              /\ \A j \in DOMAIN emitted : Placed(j)
              /\ ~IsCloseType(out[Len(out)]) /\ ~IsCloseR(out[Len(out)])

\* generate failed in the second type, after an entry of that type was emitted.
C5_Witness ==
    /\ result = "false"
    /\ typeIdx = 2
    /\ \E k \in DOMAIN emitted : emitted[k][1] = 2

\* The output only grows: what was written is never taken back.
OutputOnlyGrows ==
    [][Len(out') >= Len(out) /\ SubSeq(out', 1, Len(out)) = out]_vars

----------------------------------------------------------------------------
(* C6: when generate succeeds the output is the header and package line,    *)
(* the opening of R, then for each type in table order one class, opened,   *)
(* filled with the type's emitted entries in entry order and closed before  *)
(* the next one is opened, then the closing of R; every type has its class, *)
(* also a type of which no entry is emitted.                                *)
C6_SuccessOutputOrder ==
    /\ Count(out, IsOpenType) - Count(out, IsCloseType) \in {0, 1}
    /\ result = "true" =>
           /\ Skeleton = Preamble \o Containers(Len(mTable.types)) \o << [kind |-> "closeR"] >>
           /\ Len(out) = Len(Skeleton) + SizeUpTo(Len(emitted))
           /\ \A j \in DOMAIN emitted : Placed(j)
           /\ \A i, j \in DOMAIN emitted : i < j => Before(emitted[i], emitted[j])
           /\ Count(out, IsOpenType) = Len(mTable.types)
           /\ Count(out, IsCloseType) = Len(mTable.types)

\* A successful run over several types, one of which holds an entry and has
\* none of its entries emitted.
C6_Witness ==
    /\ result = "true"
    /\ Len(mTable.types) >= 2
    /\ \E t \in 1..Len(mTable.types) :
           /\ mTable.types[t].entries # <<>>
           /\ \A te \in EmittedSet : te[1] # t

----------------------------------------------------------------------------
(* C7: every plain constant and every index constant is declared final      *)
(* exactly when useFinal is set; the array of a styleable is always final.  *)
(* The table of package "app" with the one type "id" and its one entry      *)
(* "foo" yields exactly one constant, foo, with that modifier.              *)
C7_UseFinalDecidesModifier ==
    /\ \A i \in DOMAIN out :
           /\ out[i].kind \in {"const", "index"} => out[i].final = mOptions.useFinal
           /\ out[i].kind = "array" => out[i].final = TRUE
    /\ ( /\ result = "true"
         /\ mTable.package = Chars("app")
         /\ package = Chars("app")
         /\ Len(mTable.types) = 1
         /\ mTable.types[1].type = "id"
         /\ Len(mTable.types[1].entries) = 1
         /\ mTable.types[1].entries[1].name = Chars("foo") )
       => out = << [kind |-> "header", package |-> Chars("app")],
                   [kind |-> "openR"],
                   [kind |-> "openType", type |-> "id"],
                   [kind |-> "const",
                    final |-> mOptions.useFinal,
                    name |-> Chars("foo"),
                    value |-> Pack(mTable.packageId, mTable.types[1].typeId,
                                   mTable.types[1].entries[1].entryId)],
                   [kind |-> "closeType"],
                   [kind |-> "closeR"] >>

\* A run without useFinal that wrote an array and an index constant.
C7_Witness ==
    /\ ~mOptions.useFinal
    /\ \E j, k \in DOMAIN out : out[j].kind = "array" /\ out[k].kind = "index"

----------------------------------------------------------------------------
(* C8: the name written is the name with every '.' and '-' replaced by '_'  *)
(* and nothing else changed: same length, different only where the name had *)
(* '.' or '-', free of '.' and '-', and unchanged by a second replacement;  *)
(* this holds of constant names, styleable names, attribute names and       *)
(* attribute package segments.                                              *)
IsTransformOf(t, n) ==
    /\ Len(t) = Len(n)
    /\ \A i \in 1..Len(n) :
           IF n[i] \in {".", "-"} THEN t[i] = "_" ELSE t[i] = n[i]
    /\ \A i \in 1..Len(t) : t[i] \notin {".", "-"}
    /\ transform(t) = t
    /\ transform(transform(n)) = transform(n)

\* The index constant name is owner, '_', the package segment if there is
\* one, and the attribute name, each of them transformed.
IsIndexNameOf(name, owner, attr) ==
    LET lo == Len(owner)
        lp == Len(attr.name.package)
        le == Len(attr.name.entry)
    IN /\ Len(name) >= lo + 1 + le
       /\ IsTransformOf(SubSeq(name, 1, lo), owner)
       /\ name[lo + 1] = "_"
       /\ IsTransformOf(SubSeq(name, Len(name) - le + 1, Len(name)), attr.name.entry)
       /\ \/ Len(name) = lo + 1 + le
          \/ /\ Len(name) = lo + 1 + lp + 1 + le
             /\ IsTransformOf(SubSeq(name, lo + 2, lo + 1 + lp), attr.name.package)
             /\ name[lo + lp + 2] = "_"

C8_NamesAreTransformed ==
    \A k \in DOMAIN emitted :
        LET s == DeclStart(k)
            attrs == EntryAt(emitted[k]).styleable
        IN /\ DeclEnd(k) <= Len(out)
           /\ IsTransformOf(out[s].name, PlainName(emitted[k]))
           /\ IsStyleableAt(k) =>
                  \A i \in 1..Len(attrs) :
                      \E a \in { attrs[j] : j \in DOMAIN attrs } :
                          /\ a.id = out[s].ids[i]
                          /\ IsIndexNameOf(out[s + i].name, PlainName(emitted[k]), a)

\* A styleable with '.' or '-' in its name was emitted with an attribute of
\* another package that has '.' in the package and '-' in the name.
C8_Witness ==
    \E k \in DOMAIN emitted :
        /\ IsStyleableAt(k)
        /\ \E i \in DOMAIN PlainName(emitted[k]) : PlainName(emitted[k])[i] \in {".", "-"}
        /\ \E j \in DOMAIN EntryAt(emitted[k]).styleable :
               LET a == EntryAt(emitted[k]).styleable[j].name
               IN /\ a.package # mTable.package
                  /\ \E i \in DOMAIN a.package : a.package[i] = "."
                  /\ \E i \in DOMAIN a.entry : a.entry[i] = "-"

----------------------------------------------------------------------------
(* C9: the index constant of an attribute is named owner_package_name when  *)
(* the attribute's package differs from the table's own package and         *)
(* owner_name otherwise, whatever the target package is.                    *)
C9_IndexNamePrefix ==
    \A k \in DOMAIN emitted : IsStyleableAt(k) =>
        LET s == DeclStart(k)
            attrs == EntryAt(emitted[k]).styleable
            owner == transform(PlainName(emitted[k]))
        IN /\ DeclEnd(k) <= Len(out)
           /\ \A i \in 1..Len(attrs) :
                  \E a \in { attrs[j] : j \in DOMAIN attrs } :
                      /\ a.id = out[s].ids[i]
                      /\ out[s + i].kind = "index"
                      /\ a.name.package # mTable.package =>
                             out[s + i].name = owner \o <<"_">> \o transform(a.name.package)
                                                 \o <<"_">> \o transform(a.name.entry)
                      /\ a.name.package = mTable.package =>
                             out[s + i].name = owner \o <<"_">> \o transform(a.name.entry)

\* A styleable was emitted for a target package other than the table's own,
\* with an attribute of the target package and one of the table's package.
C9_Witness ==
    /\ package # mTable.package
    /\ \E k \in DOMAIN emitted :
           /\ IsStyleableAt(k)
           /\ \E i, j \in DOMAIN EntryAt(emitted[k]).styleable :
                  /\ EntryAt(emitted[k]).styleable[i].name.package = package
                  /\ EntryAt(emitted[k]).styleable[j].name.package = mTable.package

====
